---- MODULE Spec2Model ----
(***************************************************************************)
(* Model of the consumption dashboards:                                    *)
(*   - src/databricks_dashboard/app.py : year_bucket and the forecast      *)
(*     scenario (month enumeration, baseline, compounding projection);     *)
(*   - src/app.py, src/consumption_app_notebook.py : the historical        *)
(*     month-over-month growth query (LAG window, filters, ordering,       *)
(*     limit).                                                             *)
(* Numbers are exact rationals [n, d]; money is rounded to cents and       *)
(* percentages to hundredths of a percent where the code rounds.           *)
(***************************************************************************)
EXTENDS Integers, Sequences, FiniteSets, TLC

VARIABLES
    pc,                 \* position of the forecast dashboard script
    forecast_start,     \* sidebar date input (any day of month)
    forecast_end,       \* sidebar date input (any day of month)
    organic_growth,     \* sidebar Yr1..Yr3 growth %, whole percents
    hist_query,         \* what the warehouse answers to historical_sql
    df_hist,            \* DataFrame of the historical report
    forecast_months,    \* list built by the enumeration loop
    baseline_dollars,   \* baseline of the projection
    i,                  \* enumerate() index of the projection loop
    compound,           \* running compound multiplier
    rows,               \* forecast rows appended so far
    yb_month,           \* first month_date of a run of year_bucket calls
    yb_run,             \* labels year_bucket returned for the run so far
    table,              \* rows of c360_consumption_account_monthly
    account_name,       \* sidebar "Account Name (ILIKE)"
    historical_start,   \* sidebar "Historical Start" (month number)
    historical_end,     \* sidebar "Historical End" (month number)
    organic_mom_min,    \* sidebar "Min MoM Growth % (optional)" text
    result_limit,       \* sidebar "Max rows"
    historical_sql,     \* the query text the script builds, as its variable parts
    df_src,             \* rows of historical_consumption behind each row of df_mom
    df_mom,             \* DataFrame returned for historical_sql
    result_limit_str,   \* notebook widget "Max rows to return" (text)
    df_prev             \* DataFrame the previous run of the script displayed, if any

growthVars == <<table, account_name, historical_start, historical_end, organic_mom_min,
                result_limit, historical_sql, df_src, df_mom, result_limit_str, df_prev>>

vars == <<pc, forecast_start, forecast_end, organic_growth, hist_query, df_hist,
          forecast_months, baseline_dollars, i, compound, rows, yb_month, yb_run,
          growthVars>>

forecastVars == <<pc, forecast_end, organic_growth, hist_query, df_hist,
                  forecast_months, baseline_dollars, i, compound, rows>>

forecastVarsNoPc == <<forecast_end, organic_growth, hist_query, df_hist,
                      forecast_months, baseline_dollars, i, compound, rows>>

bucketVars == <<yb_month, yb_run>>

----------------------------------------------------------------------------
(* Bounds of the model *)

\* largest number of rows the historical report returns in the baseline runs
MaxHist == 3

\* last calendar year a forecast end date or a year_bucket argument is drawn from
MaxYear == 2029

\* largest bucket number used when reading a "Yr{n}" label back
MaxBucket == 12

\* number of consecutive months year_bucket is called on in one run
MaxRun == 26

----------------------------------------------------------------------------
(* Exact arithmetic *)

Abs(x) == IF x < 0 THEN -x ELSE x

RECURSIVE GCD(_, _)
GCD(a, b) == IF b = 0 THEN a ELSE GCD(b, a % b)

\* the rational n/d in lowest terms with a positive denominator
Rat(n, d) ==
    LET s == IF d < 0 THEN -1 ELSE 1
        g == GCD(Abs(n), Abs(d))
    IN  IF n = 0 THEN [n |-> 0, d |-> 1]
        ELSE [n |-> (s * n) \div g, d |-> (s * d) \div g]

RatInt(k) == [n |-> k, d |-> 1]

RatMul(a, b) ==
    LET g1 == GCD(Abs(a.n), b.d)
        g2 == GCD(Abs(b.n), a.d)
    IN  IF a.n = 0 \/ b.n = 0 THEN RatInt(0)
        ELSE [n |-> (a.n \div g1) * (b.n \div g2), d |-> (a.d \div g2) * (b.d \div g1)]

RatAdd(a, b) == Rat(a.n * b.d + b.n * a.d, a.d * b.d)

\* Python round(x, 2) of the double computed for the exact value x, as the set of
\* hundredths it can return: the nearest hundredth, and at an exact decimal tie
\* either neighbour, since the double lies just below or just above the tie
\* depending on the binary rounding of the operations that produced it.
PyRound2(x) ==
    LET h   == RatMul(x, RatInt(100))
        q   == h.n \div h.d
        rem == h.n % h.d
    IN  IF 2 * rem < h.d THEN {q}
        ELSE IF 2 * rem > h.d THEN {q + 1}
        ELSE {q, q + 1}

----------------------------------------------------------------------------
(* Dates *)

Date(y, m, d) == [year |-> y, month |-> m, day |-> d]

\* datetime.date comparison a < b
DateLT(a, b) ==
    \/ a.year < b.year
    \/ a.year = b.year /\ a.month < b.month
    \/ a.year = b.year /\ a.month = b.month /\ a.day < b.day

DateLE(a, b) == a = b \/ DateLT(a, b)

\* d + relativedelta(months=1) for a first-of-month date
AddMonth(d) ==
    IF d.month = 12 THEN Date(d.year + 1, 1, d.day) ELSE Date(d.year, d.month + 1, d.day)

\* the date k calendar months after d, same day of month (days are at most 28)
AddMonths(d, k) ==
    LET ord == d.year * 12 + (d.month - 1) + k
    IN  Date(ord \div 12, (ord % 12) + 1, d.day)

----------------------------------------------------------------------------
(* src/databricks_dashboard/app.py *)

\* (variant: the first branch compares with <= instead of <)
year_bucketInclusive(fstart, month_date) ==
    IF DateLE(month_date, fstart) THEN "Historical"
    ELSE LET delta_months == (month_date.year - fstart.year) * 12
                             + (month_date.month - fstart.month)
             year_num == (delta_months \div 12) + 1
         IN  "Yr" \o ToString(year_num)

year_bucket(fstart, month_date) ==
    IF DateLT(month_date, fstart) THEN "Historical"
    ELSE LET delta_months == (month_date.year - fstart.year) * 12
                             + (month_date.month - fstart.month)
             year_num == (delta_months \div 12) + 1
         IN  "Yr" \o ToString(year_num)

\* int(bucket.replace("Yr", ""))
YrNum(bucket) == CHOOSE n \in 1..MaxBucket : "Yr" \o ToString(n) = bucket

\* while d <= end: forecast_months.append(d); d = d + relativedelta(months=1)
RECURSIVE EnumerateMonths(_, _)
EnumerateMonths(d, end) ==
    IF DateLE(d, end) THEN <<d>> \o EnumerateMonths(AddMonth(d), end) ELSE <<>>

\* dict.get(key, default)
DictGet(dict, key, default) == IF key \in DOMAIN dict THEN dict[key] ELSE default

\* the literal 0.05 of the two .get() defaults
DefaultRate == Rat(5, 100)

\* growth_by_yr = {1: yr1 / 100.0, 2: yr2 / 100.0, 3: yr3 / 100.0}
growth_by_yr == [k \in 1..3 |-> Rat(organic_growth[k], 100)]

\* (variant: the fallback is the literal default instead of the Yr3 rate)
GrowthPctLiteralDefault(by_yr, yr_num) == DictGet(by_yr, yr_num, DefaultRate)

\* growth_pct = growth_by_yr.get(yr_num, growth_by_yr.get(3, 0.05))
GrowthPct(by_yr, yr_num) == DictGet(by_yr, yr_num, DictGet(by_yr, 3, DefaultRate))

\* (variant: the i % 12 == 0 test left out)
CompoundEveryMonth(c, idx, yr_num, by_yr) ==
    IF yr_num > 1
    THEN RatMul(c, RatAdd(RatInt(1), DictGet(by_yr, yr_num - 1, DefaultRate)))
    ELSE c

\* if i % 12 == 0 and yr_num > 1: compound *= 1.0 + growth_by_yr.get(yr_num - 1, 0.05)
CompoundStep(c, idx, yr_num, by_yr) ==
    IF idx % 12 = 0 /\ yr_num > 1
    THEN RatMul(c, RatAdd(RatInt(1), DictGet(by_yr, yr_num - 1, DefaultRate)))
    ELSE c

\* projected = baseline_dollars * compound * (1.0 + growth_pct)
Projected(baseline, c, growth_pct) ==
    RatMul(RatMul(baseline, c), RatAdd(RatInt(1), growth_pct))

\* the dict appended to rows: round(growth_pct * 100, 2) in hundredths of a
\* percent, round(projected, 2) in cents, each as the set PyRound2 gives
ForecastRow(month_start, bucket, growth_pct, projected) ==
    [month |-> month_start,
     year_bucket |-> bucket,
     organic_growth_pct |-> PyRound2(RatMul(growth_pct, RatInt(100))),
     projected_usage_dollars |-> PyRound2(projected)]

\* df_hist_copy["month"].max()
MaxMonth(df) == CHOOSE m \in {df[k].month : k \in DOMAIN df} :
                    \A k \in DOMAIN df : df[k].month <= m

RECURSIVE SumDollars(_, _, _)
SumDollars(df, month, k) ==
    IF k > Len(df) THEN 0
    ELSE (IF df[k].month = month THEN df[k].usage_dollars ELSE 0)
         + SumDollars(df, month, k + 1)

\* baseline_dollars: the last month's total, 1.0 when that is 0
(* variant: the placeholder also replaces a negative total *)
BaselinePlaceholderNonPositive(df) ==
    LET total == IF df = <<>> THEN 0 ELSE SumDollars(df, MaxMonth(df), 1)
    IN  IF total <= 0 THEN RatInt(1) ELSE RatInt(total)

Baseline(df) ==
    LET total == IF df = <<>> THEN 0 ELSE SumDollars(df, MaxMonth(df), 1)
    IN  IF total = 0 THEN RatInt(1) ELSE RatInt(total)

----------------------------------------------------------------------------
(* src/app.py: the historical consumption query *)

NULL == <<>>

\* the variable parts of historical_sql before the script has built it
NoQuery == [built |-> FALSE, pattern |-> "", date_from |-> 0, date_to |-> 0,
            growth_filter |-> FALSE, min_literal |-> "", limit |-> 0]

\* a - b and a / b (b nonzero) on exact rationals
RatSub(a, b) == Rat(a.n * b.d - b.n * a.d, a.d * b.d)

RatDiv(a, b) == Rat(a.n * b.d, a.d * b.n)

RatGE(a, b) == a.n * b.d >= b.n * a.d

\* SQL ROUND(x, 2): half away from zero, as a number of hundredths
SqlRound2(x) ==
    LET h   == RatMul(x, RatInt(100))
        m   == Abs(h.n)
        q   == m \div h.d
        up  == IF 2 * (m % h.d) >= h.d THEN q + 1 ELSE q
    IN  IF h.n < 0 THEN -up ELSE up

\* ROUND of a nullable column
SqlRound2Null(v) == IF v = NULL THEN NULL ELSE <<SqlRound2(v[1])>>

\* float(organic_mom_min.strip()): ok = FALSE stands for ValueError
ParseFloat(text) ==
    CASE text = "50"     -> [ok |-> TRUE,  nan |-> FALSE, value |-> RatInt(50)]
      [] text = " 50 "   -> [ok |-> TRUE,  nan |-> FALSE, value |-> RatInt(50)]
      [] text = "-33.33" -> [ok |-> TRUE,  nan |-> FALSE, value |-> Rat(-3333, 100)]
      [] text = "nan"    -> [ok |-> TRUE,  nan |-> TRUE,  value |-> RatInt(0)]
      [] OTHER           -> [ok |-> FALSE, nan |-> FALSE, value |-> RatInt(0)]

\* organic_mom_min and organic_mom_min.strip()
IsBlank(text) == text \in {"", " "}

\* organic_mom_min_f: NULL for None, else <<float>>
OrganicMomMinF(text) ==
    IF IsBlank(text) THEN NULL
    ELSE IF ParseFloat(text).ok THEN <<ParseFloat(text)>> ELSE NULL

\* int(result_limit_str) of the notebook: ok = FALSE stands for ValueError
ParseInt(text) ==
    CASE text = "0"     -> [ok |-> TRUE,  value |-> 0]
      [] text = "-5"    -> [ok |-> TRUE,  value |-> -5]
      [] text = "3"     -> [ok |-> TRUE,  value |-> 3]
      [] text = "20000" -> [ok |-> TRUE,  value |-> 20000]
      [] OTHER          -> [ok |-> FALSE, value |-> 0]

\* result_limit of the notebook: max(1, min(10000, int(text))), 500 on ValueError
(* variant: without the lower clamp *)
NotebookResultLimitNoFloor(text) ==
    LET n == ParseInt(text)
    IN  IF ~n.ok THEN 500
        ELSE IF n.value > 10000 THEN 10000 ELSE n.value

NotebookResultLimit(text) ==
    LET n == ParseInt(text)
        capped == IF n.value > 10000 THEN 10000 ELSE n.value
    IN  IF ~n.ok THEN 500
        ELSE IF capped < 1 THEN 1 ELSE capped

\* f"{organic_mom_min_f}": str() of the float
FormatFloat(f) ==
    IF f.nan THEN "nan"
    ELSE IF f.value = RatInt(50) THEN "50.0"
    ELSE IF f.value = Rat(-3333, 100) THEN "-33.33"
    ELSE "0.0"

\* how the warehouse reads the interpolated token: a numeric literal, or NULL when
\* the token is no literal but a bare identifier (nan), which names no column
SqlNumber(token) ==
    CASE token = "50.0"   -> <<RatInt(50)>>
      [] token = "-33.33" -> <<Rat(-3333, 100)>>
      [] token = "0.0"    -> <<RatInt(0)>>
      [] OTHER            -> NULL

\* the script's construction of historical_sql
BuildSql(pattern, date_from, date_to, min_f, limit) ==
    [built |-> TRUE, pattern |-> pattern, date_from |-> date_from, date_to |-> date_to,
     growth_filter |-> min_f # NULL,
     min_literal |-> IF min_f # NULL THEN FormatFloat(min_f[1]) ELSE "",
     limit |-> limit]

\* lower-casing of the names and patterns in use
Lower(str) == IF str = "Acme" THEN "acme" ELSE IF str = "Zeta" THEN "zeta" ELSE str

\* name ILIKE pattern, for the pattern % and for patterns without wildcards
ILike(name, pattern) == pattern = "%" \/ Lower(name) = Lower(pattern)

\* FROM table WHERE account_name ILIKE .. AND usage_date >= .. AND usage_date <= ..
Fetched(tbl, q) ==
    {r \in tbl : /\ ILike(r.account_name, q.pattern)
                 /\ r.usage_date >= q.date_from
                 /\ r.usage_date <= q.date_to}

\* a set of rows with distinct usage_date as the sequence ORDER BY usage_date
RECURSIVE OrderByUsageDate(_)
OrderByUsageDate(S) ==
    IF S = {} THEN <<>>
    ELSE LET first == CHOOSE r \in S : \A x \in S : r.usage_date <= x.usage_date
         IN  <<first>> \o OrderByUsageDate(S \ {first})

\* position of r in its window partition
PositionIn(seq, r) == CHOOSE k \in DOMAIN seq : seq[k] = r

\* LAG(dbu_dollars, 1) OVER (PARTITION BY account_id ORDER BY usage_date)
(* variant: the window is not partitioned by account_id *)
LagUnpartitioned(S, r) ==
    LET window == OrderByUsageDate(S)
        k == PositionIn(window, r)
    IN  IF k = 1 THEN NULL ELSE <<window[k - 1].dbu_dollars>>

Lag(S, r) ==
    LET window == OrderByUsageDate({x \in S : x.account_id = r.account_id})
        k == PositionIn(window, r)
    IN  IF k = 1 THEN NULL ELSE <<window[k - 1].dbu_dollars>>

\* CASE WHEN LAG(..) > 0 THEN ((dbu_dollars - LAG(..)) / LAG(..)) * 100 ELSE NULL END
(* variant: ELSE 0 *)
MomGrowthPctElseZero(dbu, prev) ==
    IF prev # NULL /\ prev[1] > 0
    THEN <<RatMul(RatDiv(RatSub(RatInt(dbu), RatInt(prev[1])), RatInt(prev[1])), RatInt(100))>>
    ELSE <<RatInt(0)>>

MomGrowthPct(dbu, prev) ==
    IF prev # NULL /\ prev[1] > 0
    THEN <<RatMul(RatDiv(RatSub(RatInt(dbu), RatInt(prev[1])), RatInt(prev[1])), RatInt(100))>>
    ELSE NULL

\* the common table expression historical_consumption
(* variant: dbu_dollars > 0 tested inside the expression, before LAG *)
HistoricalConsumptionPositiveOnly(tbl, q) ==
    LET S == {r \in Fetched(tbl, q) : r.dbu_dollars > 0}
    IN  { [account_id |-> r.account_id,
           account_name |-> r.account_name,
           usage_date |-> r.usage_date,
           dbu_dollars |-> r.dbu_dollars,
           prev_month_dbu_dollars |-> Lag(S, r),
           mom_growth_pct |-> MomGrowthPct(r.dbu_dollars, Lag(S, r))] : r \in S }

HistoricalConsumption(tbl, q) ==
    LET S == Fetched(tbl, q)
    IN  { [account_id |-> r.account_id,
           account_name |-> r.account_name,
           usage_date |-> r.usage_date,
           dbu_dollars |-> r.dbu_dollars,
           prev_month_dbu_dollars |-> Lag(S, r),
           mom_growth_pct |-> MomGrowthPct(r.dbu_dollars, Lag(S, r))] : r \in S }

\* WHERE dbu_dollars > 0 [AND (mom_growth_pct IS NULL OR mom_growth_pct >= min)]
(* variant: dbu_dollars >= 0 *)
OuterWhereNonNegative(r, q) ==
    /\ r.dbu_dollars >= 0
    /\ q.growth_filter =>
         (r.mom_growth_pct = NULL \/ RatGE(r.mom_growth_pct[1], SqlNumber(q.min_literal)[1]))

OuterWhere(r, q) ==
    /\ r.dbu_dollars > 0
    /\ q.growth_filter =>
         (r.mom_growth_pct = NULL \/ RatGE(r.mom_growth_pct[1], SqlNumber(q.min_literal)[1]))

\* binary collation of the account names in use
NameRank(name) == IF name = "Acme" THEN 1 ELSE 2

\* ORDER BY account_name, usage_date DESC: a sorts strictly before b
(* variant: usage_date ascending *)
SortsBeforeDateAsc(a, b) ==
    \/ NameRank(a.account_name) < NameRank(b.account_name)
    \/ a.account_name = b.account_name /\ a.usage_date < b.usage_date

SortsBefore(a, b) ==
    \/ NameRank(a.account_name) < NameRank(b.account_name)
    \/ a.account_name = b.account_name /\ a.usage_date > b.usage_date

\* the orders the sort can return: rows equal on both keys come in either order
OrderedResults(S) ==
    LET n == Cardinality(S)
    IN  { f \in [1..n -> S] :
            /\ \A a, b \in 1..n : a # b => f[a] # f[b]
            /\ \A a, b \in 1..n : a < b => ~SortsBefore(f[b], f[a]) }

\* LIMIT n
Limit(seq, n) == SubSeq(seq, 1, IF n < Len(seq) THEN n ELSE Len(seq))

\* the SELECT list (the pass-through columns are left out)
SelectRow(r) ==
    [account_name |-> r.account_name,
     usage_date |-> r.usage_date,
     dbu_dollars |-> SqlRound2(RatInt(r.dbu_dollars)),
     prev_month_dbu_dollars |-> IF r.prev_month_dbu_dollars = NULL THEN NULL
                                ELSE <<SqlRound2(RatInt(r.prev_month_dbu_dollars[1]))>>,
     mom_growth_pct |-> SqlRound2Null(r.mom_growth_pct)]

\* the query fails to compile when the growth filter compares with a token that is
\* neither a literal nor a column
QueryCompiles(q) == q.growth_filter => SqlNumber(q.min_literal) # NULL

\* the outer SELECT: WHERE, then ORDER BY, then LIMIT; the row sequences it can return
(* variant: LIMIT taken before ORDER BY *)
OuterQueryLimitFirst(cte, q) ==
    LET kept == {r \in cte : OuterWhere(r, q)}
        n == IF q.limit < Cardinality(kept) THEN q.limit ELSE Cardinality(kept)
    IN  UNION { OrderedResults(T) : T \in {U \in SUBSET kept : Cardinality(U) = n} }

OuterQuery(cte, q) ==
    { Limit(sorted, q.limit) : sorted \in OrderedResults({r \in cte : OuterWhere(r, q)}) }

----------------------------------------------------------------------------
(* Inputs of the forecast dashboard *)

StartDates == {Date(2025, 1, 1), Date(2025, 1, 15), Date(2025, 7, 1), Date(2025, 7, 20)}

EndDates == {Date(y, m, d) : y \in 2024..MaxYear, m \in {1, 7}, d \in {1, 20}}

GrowthPercents == {0, 5, 10}

HistQueries ==
    { [ok |-> FALSE, rows |-> <<>>],
      [ok |-> TRUE,  rows |-> <<>>],
      [ok |-> TRUE,  rows |-> <<[month |-> 2, usage_dollars |-> 600],
                                [month |-> 2, usage_dollars |-> 400],
                                [month |-> 1, usage_dollars |-> 300]>>] }

BucketDates == {Date(y, m, d) : y \in 2024..MaxYear, m \in 1..12, d \in {1, 15, 28}}

----------------------------------------------------------------------------
(* The forecast dashboard script *)

InitForecast ==
    /\ pc = "historical"
    /\ forecast_start \in StartDates
    /\ forecast_end \in EndDates
    /\ organic_growth \in [1..3 -> GrowthPercents]
    /\ hist_query \in HistQueries
    /\ df_hist = <<>>
    /\ forecast_months = <<>>
    /\ baseline_dollars = RatInt(0)
    /\ i = 0
    /\ compound = RatInt(1)
    /\ rows = <<>>
    /\ yb_month = forecast_start
    /\ yb_run = <<>>
    /\ table = {}
    /\ account_name = "%"
    /\ historical_start = 1
    /\ historical_end = 1
    /\ organic_mom_min = ""
    /\ result_limit = 1
    /\ historical_sql = NoQuery
    /\ df_src = <<>>
    /\ df_mom = <<>>
    /\ result_limit_str = ""
    /\ df_prev = <<>>

\* df_hist = run_query(conn, historical_sql); on an exception df_hist = pd.DataFrame()
LoadHistorical ==
    /\ pc = "historical"
    /\ df_hist' = IF hist_query.ok THEN hist_query.rows ELSE <<>>
    /\ pc' = "months"
    /\ UNCHANGED <<forecast_start, forecast_end, organic_growth, hist_query,
                   forecast_months, baseline_dollars, i, compound, rows, bucketVars, growthVars>>

\* Build list of forecast months
BuildForecastMonths ==
    /\ pc = "months"
    /\ forecast_months' = EnumerateMonths(Date(forecast_start.year, forecast_start.month, 1),
                                          Date(forecast_end.year, forecast_end.month, 1))
    /\ pc' = "baseline"
    /\ UNCHANGED <<forecast_start, forecast_end, organic_growth, hist_query, df_hist,
                   baseline_dollars, i, compound, rows, bucketVars, growthVars>>

\* Baseline: last month's total usage_dollars from historical
ComputeBaseline ==
    /\ pc = "baseline"
    /\ baseline_dollars' = Baseline(df_hist)
    /\ compound' = RatInt(1)
    /\ rows' = <<>>
    /\ i' = 0
    /\ pc' = "loop"
    /\ UNCHANGED <<forecast_start, forecast_end, organic_growth, hist_query, df_hist,
                   forecast_months, bucketVars, growthVars>>

\* one iteration of: for i, month_start in enumerate(forecast_months)
ProjectMonth ==
    /\ pc = "loop"
    /\ i < Len(forecast_months)
    /\ LET month_start == forecast_months[i + 1]
           bucket == year_bucket(forecast_start, month_start)
       IN  IF bucket = "Historical"
           THEN UNCHANGED <<compound, rows>>
           ELSE LET yr_num == YrNum(bucket)
                    growth_pct == GrowthPct(growth_by_yr, yr_num)
                    c == CompoundStep(compound, i, yr_num, growth_by_yr)
                IN  /\ compound' = c
                    /\ rows' = Append(rows, ForecastRow(month_start, bucket, growth_pct,
                                                Projected(baseline_dollars, c, growth_pct)))
    /\ i' = i + 1
    /\ UNCHANGED <<pc, forecast_start, forecast_end, organic_growth, hist_query, df_hist,
                   forecast_months, baseline_dollars, bucketVars, growthVars>>

\* the loop is exhausted: the forecast table (or the "no months" notice) is shown
FinishForecast ==
    /\ pc = "loop"
    /\ i = Len(forecast_months)
    /\ pc' = "done"
    /\ UNCHANGED <<forecast_start, forecast_end, organic_growth, hist_query, df_hist,
                   forecast_months, baseline_dollars, i, compound, rows, bucketVars, growthVars>>

NextForecast ==
    \/ LoadHistorical
    \/ BuildForecastMonths
    \/ ComputeBaseline
    \/ ProjectMonth
    \/ FinishForecast

Spec == InitForecast /\ [][NextForecast]_vars

----------------------------------------------------------------------------
(* The forecast dashboard script run on historical reports of every shape *)

HistCells == {[month |-> m, usage_dollars |-> u] : m \in {1, 2}, u \in {-500, 0, 500}}

\* ORDER BY month DESC, usage_dollars DESC: a may come before b
HistOrdered(a, b) ==
    \/ a.month > b.month
    \/ a.month = b.month /\ a.usage_dollars >= b.usage_dollars

\* the query failed, or returned at most MaxHist rows in its sort order
BaselineQueries ==
    {[ok |-> FALSE, rows |-> <<>>]}
    \cup { [ok |-> TRUE, rows |-> f] :
             f \in { g \in UNION {[1..n -> HistCells] : n \in 0..MaxHist} :
                       \A a, b \in DOMAIN g : a < b => HistOrdered(g[a], g[b]) } }

InitBaseline ==
    /\ pc = "historical"
    /\ forecast_start \in {Date(2025, 1, 1), Date(2025, 1, 15)}
    /\ forecast_end \in {Date(2025, 1, 20), Date(2025, 7, 1), Date(2026, 7, 1)}
    /\ organic_growth = [k \in 1..3 |-> IF k = 1 THEN 5 ELSE 10]
    /\ hist_query \in BaselineQueries
    /\ df_hist = <<>>
    /\ forecast_months = <<>>
    /\ baseline_dollars = RatInt(0)
    /\ i = 0
    /\ compound = RatInt(1)
    /\ rows = <<>>
    /\ yb_month = forecast_start
    /\ yb_run = <<>>
    /\ table = {}
    /\ account_name = "%"
    /\ historical_start = 1
    /\ historical_end = 1
    /\ organic_mom_min = ""
    /\ result_limit = 1
    /\ historical_sql = NoQuery
    /\ df_src = <<>>
    /\ df_mom = <<>>
    /\ result_limit_str = ""
    /\ df_prev = <<>>

SpecBaseline == InitBaseline /\ [][NextForecast]_vars

----------------------------------------------------------------------------
(* year_bucket called on an ascending run of months *)

InitBucket ==
    /\ pc = "bucket"
    /\ forecast_start \in StartDates
    /\ yb_month \in BucketDates
    /\ yb_run = <<>>
    /\ forecast_end = forecast_start
    /\ organic_growth = [k \in 1..3 |-> 5]
    /\ hist_query = [ok |-> TRUE, rows |-> <<>>]
    /\ df_hist = <<>>
    /\ forecast_months = <<>>
    /\ baseline_dollars = RatInt(0)
    /\ i = 0
    /\ compound = RatInt(1)
    /\ rows = <<>>
    /\ table = {}
    /\ account_name = "%"
    /\ historical_start = 1
    /\ historical_end = 1
    /\ organic_mom_min = ""
    /\ result_limit = 1
    /\ historical_sql = NoQuery
    /\ df_src = <<>>
    /\ df_mom = <<>>
    /\ result_limit_str = ""
    /\ df_prev = <<>>

\* the label of the next month of the run that starts at yb_month
CallYearBucket ==
    /\ pc = "bucket"
    /\ Len(yb_run) < MaxRun
    /\ yb_run' = Append(yb_run, year_bucket(forecast_start, AddMonths(yb_month, Len(yb_run))))
    /\ UNCHANGED <<forecastVars, forecast_start, yb_month, growthVars>>

NextBucket == CallYearBucket

SpecBucket == InitBucket /\ [][NextBucket]_vars

----------------------------------------------------------------------------
(* Inputs of the consumption analytics app *)

\* largest number of rows in the table
MaxRows == 3

AccountIds == {1, 2}

AccountNames == {"Acme", "Zeta"}

UsageDates == {1, 2, 3}

DbuDollars == {-100, 0, 100, 150}

Patterns == {"%", "acme"}

MinTexts == {"", "abc", "50", "-33.33", "nan"}

Limits == {1, 10000}

\* tables with one account_name per account_id and at most one row per account
\* and month
Tables ==
    { {[account_id |-> c[1], account_name |-> nameOf[c[1]], usage_date |-> c[2],
        dbu_dollars |-> amt[c]] : c \in cells} :
        nameOf \in [AccountIds -> AccountNames],
        cells \in {cs \in SUBSET (AccountIds \X UsageDates) : Cardinality(cs) <= MaxRows},
        amt \in [AccountIds \X UsageDates -> DbuDollars] }

----------------------------------------------------------------------------
(* The consumption analytics app script (src/app.py) *)

InitGrowth ==
    /\ pc = "params"
    /\ table \in Tables
    /\ account_name \in Patterns
    /\ historical_start \in {1, 2}
    /\ historical_end = 3
    /\ organic_mom_min \in MinTexts
    /\ result_limit \in Limits
    /\ historical_sql = NoQuery
    /\ df_src = <<>>
    /\ df_mom = <<>>
    /\ result_limit_str = ""
    /\ df_prev = <<>>
    /\ forecast_start = Date(2025, 1, 1)
    /\ forecast_end = Date(2025, 1, 1)
    /\ organic_growth = [k \in 1..3 |-> 5]
    /\ hist_query = [ok |-> TRUE, rows |-> <<>>]
    /\ df_hist = <<>>
    /\ forecast_months = <<>>
    /\ baseline_dollars = RatInt(0)
    /\ i = 0
    /\ compound = RatInt(1)
    /\ rows = <<>>
    /\ yb_month = forecast_start
    /\ yb_run = <<>>

\* parse the optional minimum and build historical_sql
BuildHistoricalSql ==
    /\ pc = "params"
    /\ historical_sql' = BuildSql(account_name, historical_start, historical_end,
                                  OrganicMomMinF(organic_mom_min), result_limit)
    /\ pc' = "query"
    /\ UNCHANGED <<table, account_name, historical_start, historical_end, organic_mom_min,
                   result_limit, df_src, df_mom, result_limit_str, df_prev,
                   forecast_start, forecastVarsNoPc, bucketVars>>

\* df_hist = run_query(conn, historical_sql, "historical"); st.dataframe(df_hist)
RunHistoricalQuery ==
    /\ pc = "query"
    /\ QueryCompiles(historical_sql)
    /\ \E answer \in OuterQuery(HistoricalConsumption(table, historical_sql), historical_sql) :
          /\ df_src' = answer
          /\ df_mom' = [k \in DOMAIN answer |-> SelectRow(answer[k])]
    /\ pc' = "shown"
    /\ UNCHANGED <<table, account_name, historical_start, historical_end, organic_mom_min,
                   result_limit, historical_sql, result_limit_str, df_prev,
                   forecast_start, forecastVarsNoPc, bucketVars>>

\* the warehouse rejects the query: st.error("Query failed") and the script re-raises
HistoricalQueryFails ==
    /\ pc = "query"
    /\ ~QueryCompiles(historical_sql)
    /\ pc' = "failed"
    /\ UNCHANGED <<growthVars, forecast_start, forecastVarsNoPc, bucketVars>>

NextGrowth ==
    \/ BuildHistoricalSql
    \/ RunHistoricalQuery
    \/ HistoricalQueryFails

SpecGrowth == InitGrowth /\ [][NextGrowth]_vars

----------------------------------------------------------------------------
(* The consumption analytics app run twice on the same table and parameters: the
   script is executed again from the top after every interaction with the page *)

InitRerun ==
    /\ pc = "params"
    /\ table \in Tables
    /\ account_name = "%"
    /\ historical_start = 1
    /\ historical_end = 3
    /\ organic_mom_min \in {"", "50", "nan"}
    /\ result_limit \in Limits
    /\ historical_sql = NoQuery
    /\ df_src = <<>>
    /\ df_mom = <<>>
    /\ result_limit_str = ""
    /\ df_prev = NULL
    /\ forecast_start = Date(2025, 1, 1)
    /\ forecast_end = Date(2025, 1, 1)
    /\ organic_growth = [k \in 1..3 |-> 5]
    /\ hist_query = [ok |-> TRUE, rows |-> <<>>]
    /\ df_hist = <<>>
    /\ forecast_months = <<>>
    /\ baseline_dollars = RatInt(0)
    /\ i = 0
    /\ compound = RatInt(1)
    /\ rows = <<>>
    /\ yb_month = forecast_start
    /\ yb_run = <<>>

\* the page is used (a download button is pressed): the script starts again with
\* the same widget values, the DataFrame of the run before still on the page
RerunScript ==
    /\ pc = "shown"
    /\ df_prev = NULL
    /\ df_prev' = <<df_mom>>
    /\ historical_sql' = NoQuery
    /\ df_src' = <<>>
    /\ df_mom' = <<>>
    /\ pc' = "params"
    /\ UNCHANGED <<table, account_name, historical_start, historical_end, organic_mom_min,
                   result_limit, result_limit_str, forecast_start, forecastVarsNoPc,
                   bucketVars>>

NextRerun ==
    \/ BuildHistoricalSql
    \/ RunHistoricalQuery
    \/ HistoricalQueryFails
    \/ RerunScript

SpecRerun == InitRerun /\ [][NextRerun]_vars

----------------------------------------------------------------------------
(* The notebook (src/consumption_app_notebook.py): the same query, its parameters
   read from text widgets *)

LimitTexts == {"0", "-5", "3", "20000", "abc", "", "2.5"}

InitNotebook ==
    /\ pc = "widgets"
    /\ table \in Tables
    /\ account_name = "%"
    /\ historical_start = 1
    /\ historical_end = 3
    /\ organic_mom_min \in {"", "50", "nan"}
    /\ result_limit_str \in LimitTexts
    /\ result_limit = 500
    /\ historical_sql = NoQuery
    /\ df_src = <<>>
    /\ df_mom = <<>>
    /\ df_prev = <<>>
    /\ forecast_start = Date(2025, 1, 1)
    /\ forecast_end = Date(2025, 1, 1)
    /\ organic_growth = [k \in 1..3 |-> 5]
    /\ hist_query = [ok |-> TRUE, rows |-> <<>>]
    /\ df_hist = <<>>
    /\ forecast_months = <<>>
    /\ baseline_dollars = RatInt(0)
    /\ i = 0
    /\ compound = RatInt(1)
    /\ rows = <<>>
    /\ yb_month = forecast_start
    /\ yb_run = <<>>

\* result_limit = 500; try: result_limit = max(1, min(10000, int(result_limit_str)))
\* except ValueError: result_limit = 500
NotebookGetParameters ==
    /\ pc = "widgets"
    /\ result_limit' = NotebookResultLimit(result_limit_str)
    /\ pc' = "params"
    /\ UNCHANGED <<table, account_name, historical_start, historical_end, organic_mom_min,
                   historical_sql, df_src, df_mom, result_limit_str, df_prev,
                   forecast_start, forecastVarsNoPc, bucketVars>>

\* the notebook then builds the same sql text and runs it: spark.sql(sql); display(df)
NextNotebook ==
    \/ NotebookGetParameters
    \/ BuildHistoricalSql
    \/ RunHistoricalQuery
    \/ HistoricalQueryFails

SpecNotebook == InitNotebook /\ [][NextNotebook]_vars

----------------------------------------------------------------------------
(* Properties of the forecast projection *)

\* the rate the specification assigns to bucket n: the configured rate, or the
\* rate of the highest configured bucket when n has none
RateOrHighest(n) == IF n \in 1..3 THEN growth_by_yr[n] ELSE growth_by_yr[3]

\* product over k = 1..n of (1 + rate of bucket k)
RECURSIVE GrowthProduct(_)
GrowthProduct(n) ==
    IF n = 0 THEN RatInt(1)
    ELSE RatMul(GrowthProduct(n - 1), RatAdd(RatInt(1), RateOrHighest(n)))

LastRow == rows[Len(rows)]

\* C1: every emitted month of a bucket n with configured rates 1..n has
\* projected_amount = baseline * (product over k < n of (1 + rate[k])) * (1 + rate[n]),
\* rounded to cents, and while the loop is in such a bucket the running compound
\* multiplier is exactly that product: multiplied once per bucket boundary, by the
\* preceding bucket's rate, and at no other month.
C1_CompoundProjection ==
    /\ \A j \in DOMAIN rows :
         LET n == YrNum(rows[j].year_bucket)
         IN  n \in 1..3 =>
               rows[j].projected_usage_dollars =
                 PyRound2(RatMul(RatMul(baseline_dollars, GrowthProduct(n - 1)),
                                 RatAdd(RatInt(1), growth_by_yr[n])))
    /\ (rows # <<>> /\ YrNum(LastRow.year_bucket) \in 1..3) =>
         compound = GrowthProduct(YrNum(LastRow.year_bucket) - 1)

\* start 2025-01, baseline 1000, rates 10%/10%: the month 2026-01 is Yr2 at 1210.00
C1_Witness ==
    /\ pc = "done"
    /\ forecast_start = Date(2025, 1, 1)
    /\ organic_growth[1] = 10 /\ organic_growth[2] = 10
    /\ baseline_dollars = RatInt(1000)
    /\ Len(rows) >= 13
    /\ rows[13].month = Date(2026, 1, 1)
    /\ rows[13].year_bucket = "Yr2"
    /\ rows[13].projected_usage_dollars = {121000}
    /\ rows[1].projected_usage_dollars = {110000}

\* C2: at the first month of a bucket n > 1 whose preceding bucket n-1 has no
\* configured rate, the compound multiplier is multiplied by (1 + rate of the
\* highest configured bucket).
C2_CompoundFallbackHighest ==
    [][ (/\ pc = "loop"
         /\ i < Len(forecast_months)
         /\ i % 12 = 0
         /\ year_bucket(forecast_start, forecast_months[i + 1]) # "Historical"
         /\ YrNum(year_bucket(forecast_start, forecast_months[i + 1])) > 1
         /\ (YrNum(year_bucket(forecast_start, forecast_months[i + 1])) - 1) \notin 1..3)
        => compound' = RatMul(compound, RatAdd(RatInt(1), growth_by_yr[3])) ]_vars

\* C3: every emitted month shows growth_pct_applied = the configured rate of its
\* bucket, or the rate of bucket 3 (the highest configured) when its bucket number
\* exceeds 3; and the month just emitted has projected_amount = baseline * compound
\* * (1 + that rate), rounded to cents.
C3_RateFallbackHighest ==
    /\ \A j \in DOMAIN rows :
         rows[j].organic_growth_pct =
           PyRound2(RatMul(RateOrHighest(YrNum(rows[j].year_bucket)), RatInt(100)))
    /\ rows # <<>> =>
         LastRow.projected_usage_dollars =
           PyRound2(RatMul(RatMul(baseline_dollars, compound),
                           RatAdd(RatInt(1), RateOrHighest(YrNum(LastRow.year_bucket)))))

\* a Yr4 month was emitted with the Yr3 rate of 10 %, Yr1 and Yr2 being 0 % and 5 %
C3_Witness ==
    /\ rows # <<>>
    /\ LastRow.year_bucket = "Yr4"
    /\ organic_growth = <<0, 5, 10>>
    /\ LastRow.organic_growth_pct = {1000}

\* calendar months from the month of a to the month of b
MonthsBetween(a, b) == (b.year * 12 + b.month) - (a.year * 12 + a.month)

\* the label the specification gives month m: "Historical" strictly before the
\* start, else the n-th 12-month window counted from the start's month
ClaimedBucket(fstart, m) ==
    IF DateLT(m, fstart) THEN "Historical"
    ELSE "Yr" \o ToString(CHOOSE n \in 1..MaxBucket :
                            /\ 12 * (n - 1) <= MonthsBetween(fstart, m)
                            /\ MonthsBetween(fstart, m) < 12 * n)

\* C4: year_bucket returns "Historical" for a month strictly before forecast_start
\* and otherwise "Yr{n}" with n = floor(months since forecast_start / 12) + 1; on a
\* run of months that starts at forecast_start the k-th month (k = 0, 1, ...) is in
\* bucket floor(k / 12) + 1, so Yr1 starts at forecast_start, every bucket is 12
\* months wide and bucket numbers never decrease.
C4_YearBucket ==
    /\ \A k \in DOMAIN yb_run :
         yb_run[k] = ClaimedBucket(forecast_start, AddMonths(yb_month, k - 1))
    /\ yb_month = forecast_start =>
         \A k \in DOMAIN yb_run : yb_run[k] = "Yr" \o ToString(((k - 1) \div 12) + 1)
    /\ \A k \in DOMAIN yb_run :
         (k > 1 /\ yb_run[k - 1] # "Historical") =>
            /\ yb_run[k] # "Historical"
            /\ YrNum(yb_run[k]) \in {YrNum(yb_run[k - 1]), YrNum(yb_run[k - 1]) + 1}

\* a run from a mid-month forecast_start through Yr1 and Yr2 into Yr3
C4_Witness ==
    /\ pc = "bucket"
    /\ forecast_start = Date(2025, 1, 15)
    /\ yb_month = forecast_start
    /\ Len(yb_run) = 25
    /\ yb_run[1] = "Yr1" /\ yb_run[12] = "Yr1"
    /\ yb_run[13] = "Yr2" /\ yb_run[24] = "Yr2"
    /\ yb_run[25] = "Yr3"

\* every calendar month from the month of forecast_start to the month of
\* forecast_end inclusive, ascending
ClaimedMonths ==
    LET n == MonthsBetween(forecast_start, forecast_end) + 1
    IN  [k \in 1..(IF n > 0 THEN n ELSE 0) |->
            AddMonths(Date(forecast_start.year, forecast_start.month, 1), k - 1)]

\* C5: the projector emits exactly one row for each calendar month from the month
\* of forecast_start to the month of forecast_end, ascending, and none when
\* forecast_end < forecast_start.
C5_OneRowPerMonth ==
    pc = "done" =>
      IF DateLT(forecast_end, forecast_start)
      THEN rows = <<>>
      ELSE /\ Len(rows) = Len(ClaimedMonths)
           /\ \A k \in DOMAIN rows : rows[k].month = ClaimedMonths[k]

\* total usage of the rows of the latest month the historical query returned; 0
\* when it returned none or failed
RECURSIVE SumOver(_, _)
SumOver(S, df) ==
    IF S = {} THEN 0
    ELSE LET k == CHOOSE x \in S : TRUE
         IN  df[k].usage_dollars + SumOver(S \ {k}, df)

DerivedBaseline ==
    LET df == hist_query.rows
        latest == {k \in DOMAIN df : \A j \in DOMAIN df : df[j].month <= df[k].month}
    IN  IF ~hist_query.ok \/ df = <<>> THEN 0 ELSE SumOver(latest, df)

\* the months the loop emits a row for
EmittedMonths == SelectSeq(ClaimedMonths, LAMBDA m : ~DateLT(m, forecast_start))

\* C13: when the baseline derived from the historical data is zero (latest month
\* sums to 0, no rows, or the query failed) baseline_amount is the placeholder 1,
\* a non-zero derived baseline (negative included) is used unchanged, and in both
\* cases the loop runs to its end and emits its rows, computed from that baseline.
C13_BaselinePlaceholder ==
    pc \in {"loop", "done"} =>
      LET used == IF DerivedBaseline = 0 THEN RatInt(1) ELSE RatInt(DerivedBaseline)
      IN  /\ baseline_dollars = used
          /\ \A j \in DOMAIN rows :
               LET n == YrNum(rows[j].year_bucket)
               IN  /\ rows[j].month = EmittedMonths[j]
                   /\ n \in 1..3 =>
                        rows[j].projected_usage_dollars =
                          PyRound2(RatMul(RatMul(used, GrowthProduct(n - 1)),
                                          RatAdd(RatInt(1), growth_by_yr[n])))
          /\ pc = "done" => Len(rows) = Len(EmittedMonths)

\* the latest month holds 500 and -500 and an earlier month 500: the baseline is the
\* placeholder and the first forecast month shows 1.05
C13_Witness ==
    /\ pc = "done"
    /\ hist_query.ok
    /\ Len(hist_query.rows) = 3
    /\ hist_query.rows[1] = [month |-> 2, usage_dollars |-> 500]
    /\ hist_query.rows[2] = [month |-> 2, usage_dollars |-> -500]
    /\ hist_query.rows[3] = [month |-> 1, usage_dollars |-> 500]
    /\ baseline_dollars = RatInt(1)
    /\ Len(rows) >= 13
    /\ rows[1].projected_usage_dollars = {105}

----------------------------------------------------------------------------
(* Properties of the month-over-month growth query *)

\* the query has been answered and its DataFrame displayed
Shown == pc = "shown"

\* the rows of the table the query's date range and name pattern select
FetchedSeries ==
    {t \in table : /\ ILike(t.account_name, account_name)
                   /\ historical_start <= t.usage_date
                   /\ t.usage_date <= historical_end}

\* C6: in every output row growth_pct is ((amount - prior_amount) / prior_amount)
\* * 100 (rounded to 2 decimals) when prior_amount is present and > 0, and is
\* absent, not 0, when prior_amount is absent, 0 or negative.
C6_GrowthPctGuard ==
    Shown =>
      \A k \in DOMAIN df_mom :
        LET amount == df_mom[k].dbu_dollars
            prior  == df_mom[k].prev_month_dbu_dollars
        IN  IF prior # NULL /\ prior[1] > 0
            THEN df_mom[k].mom_growth_pct =
                   <<SqlRound2(Rat((amount - prior[1]) * 100, prior[1]))>>
            ELSE df_mom[k].mom_growth_pct = NULL

\* prior 100, current 150 gives 50.00; prior 0 gives an absent growth
C6_Witness ==
    /\ Shown
    /\ \E k \in DOMAIN df_mom :
         /\ df_mom[k].prev_month_dbu_dollars = <<10000>>
         /\ df_mom[k].dbu_dollars = 15000
         /\ df_mom[k].mom_growth_pct = <<5000>>
    /\ \E k \in DOMAIN df_mom :
         /\ df_mom[k].prev_month_dbu_dollars = <<0>>
         /\ df_mom[k].mom_growth_pct = NULL

\* the rows of the fetched series of the same account that precede r in time
EarlierRows(r) ==
    {t \in FetchedSeries : t.account_id = r.account_id /\ t.usage_date < r.usage_date}

\* C7: prior_amount of an output row is the amount of the latest earlier row of the
\* same account in the fetched series, however many months lie between, and is
\* absent, together with growth_pct, when the account has no earlier fetched row.
C7_PriorIsPreviousRowOfEntity ==
    Shown =>
      \A k \in DOMAIN df_mom :
        LET earlier == EarlierRows(df_src[k])
        IN  IF earlier = {}
            THEN /\ df_mom[k].prev_month_dbu_dollars = NULL
                 /\ df_mom[k].mom_growth_pct = NULL
            ELSE \E t \in earlier :
                   /\ \A x \in earlier : x.usage_date <= t.usage_date
                   /\ df_mom[k].prev_month_dbu_dollars = <<100 * t.dbu_dollars>>

\* account 1 has months 1 and 3, account 2 only month 2: the month-3 row takes its
\* prior from month 1, the single row of account 2 has no prior and no growth
C7_Witness ==
    /\ Shown
    /\ table = {[account_id |-> 1, account_name |-> "Acme", usage_date |-> 1, dbu_dollars |-> 150],
                [account_id |-> 2, account_name |-> "Acme", usage_date |-> 2, dbu_dollars |-> 100],
                [account_id |-> 1, account_name |-> "Acme", usage_date |-> 3, dbu_dollars |-> 100]}
    /\ Len(df_mom) = 3
    /\ df_mom[1].usage_date = 3 /\ df_mom[1].prev_month_dbu_dollars = <<15000>>
    /\ df_mom[2].usage_date = 2 /\ df_mom[2].prev_month_dbu_dollars = NULL
    /\ df_mom[2].mom_growth_pct = NULL

\* C8 as stated: the output is ordered by entity (account_id) ascending, then by
\* period descending, so the rows of one entity are adjacent.
C8_OrderByEntityId ==
    Shown =>
      /\ \A a, b \in DOMAIN df_src :
           a < b => \/ df_src[a].account_id < df_src[b].account_id
                    \/ /\ df_src[a].account_id = df_src[b].account_id
                       /\ df_src[a].usage_date > df_src[b].usage_date
      /\ \A a, b, c \in DOMAIN df_src :
           (a < b /\ b < c /\ df_src[a].account_id = df_src[c].account_id)
             => df_src[b].account_id = df_src[a].account_id

\* C8 amended: the output is ordered by account_name ascending, then by usage_date
\* descending within each account_name, so the rows of one account_name are adjacent.
C8_OrderByAccountName ==
    Shown =>
      /\ \A a, b \in DOMAIN df_mom :
           a < b => \/ NameRank(df_mom[a].account_name) < NameRank(df_mom[b].account_name)
                    \/ /\ df_mom[a].account_name = df_mom[b].account_name
                       /\ df_mom[a].usage_date >= df_mom[b].usage_date
      /\ \A a, b, c \in DOMAIN df_mom :
           (a < b /\ b < c /\ df_mom[a].account_name = df_mom[c].account_name)
             => df_mom[b].account_name = df_mom[a].account_name

\* two months of "Acme" (account 2) come before "Zeta" (account 1), latest first
C8_Witness ==
    /\ Shown
    /\ Len(df_mom) = 3
    /\ df_src[1].account_id = 2 /\ df_mom[1].account_name = "Acme" /\ df_mom[1].usage_date = 3
    /\ df_src[2].account_id = 2 /\ df_mom[2].account_name = "Acme" /\ df_mom[2].usage_date = 1
    /\ df_src[3].account_id = 1 /\ df_mom[3].account_name = "Zeta"

\* the entered text is a number: float() accepts it
MinProvided == ~IsBlank(organic_mom_min) /\ ParseFloat(organic_mom_min).ok

\* the rows the growth filter is specified to keep
ClaimedRows ==
    LET candidates == {r \in HistoricalConsumption(table, historical_sql) : r.dbu_dollars > 0}
        min == ParseFloat(organic_mom_min)
    IN  IF MinProvided
        THEN {r \in candidates :
                \/ r.mom_growth_pct = NULL
                \/ ~min.nan /\ RatGE(r.mom_growth_pct[1], min.value)}
        ELSE candidates

\* C9: once the query has been run the output holds exactly the rows with amount > 0
\* whose growth_pct is absent or >= min_growth_pct when a minimum is provided, and
\* all rows with amount > 0 when none is provided or the text is not a number (up
\* to the row limit).
C9_MinGrowthFilter ==
    pc \in {"shown", "failed"} =>
      /\ \A k \in DOMAIN df_src : df_src[k] \in ClaimedRows
      /\ Len(df_src) = (IF Cardinality(ClaimedRows) < result_limit
                        THEN Cardinality(ClaimedRows) ELSE result_limit)

\* C10: every output row comes from a table row with amount > 0, and shows that
\* amount, whatever the minimum growth entered.
C10_NoNonPositiveAmount ==
    pc \in {"shown", "failed"} =>
      \A k \in DOMAIN df_mom :
        /\ df_mom[k].dbu_dollars > 0
        /\ \E t \in table :
             /\ t.account_id = df_src[k].account_id
             /\ t.usage_date = df_src[k].usage_date
             /\ t.dbu_dollars > 0
             /\ df_mom[k].dbu_dollars = 100 * t.dbu_dollars

\* a zero and a negative month were fetched with a minimum growth entered, and only
\* the positive month is shown
C10_Witness ==
    /\ Shown
    /\ organic_mom_min = "-33.33"
    /\ \E t \in FetchedSeries : t.dbu_dollars = 0
    /\ \E t \in FetchedSeries : t.dbu_dollars < 0
    /\ Len(df_mom) = 1

\* ORDER BY account_name, usage_date DESC on the key columns: a comes strictly before b
ClaimedBefore(a, b) ==
    \/ NameRank(a.account_name) < NameRank(b.account_name)
    \/ NameRank(a.account_name) = NameRank(b.account_name) /\ a.usage_date > b.usage_date

\* C11: the row limit is applied after filtering and sorting: the output is the
\* first row_limit rows of the filtered and sorted result (all of it when it has
\* fewer rows), so it never has more than row_limit rows and no omitted row sorts
\* before an output row.
C11_LimitAfterFilterAndSort ==
    Shown =>
      LET out == {df_src[k] : k \in DOMAIN df_src}
      IN  /\ Len(df_src) <= result_limit
          /\ Len(df_src) = (IF Cardinality(ClaimedRows) < result_limit
                            THEN Cardinality(ClaimedRows) ELSE result_limit)
          /\ Cardinality(out) = Len(df_src)
          /\ out \subseteq ClaimedRows
          /\ \A a, b \in DOMAIN df_src : a < b => ~ClaimedBefore(df_src[b], df_src[a])
          /\ \A o \in ClaimedRows \ out :
               \A k \in DOMAIN df_src : ~ClaimedBefore(o, df_src[k])

\* three months fetched, the growth filter drops one, and the limit of one row
\* keeps the first of the two that remain in sort order
C11_Witness ==
    /\ Shown
    /\ result_limit = 1
    /\ organic_mom_min = "50"
    /\ Cardinality(FetchedSeries) = 3
    /\ Cardinality(ClaimedRows) = 2
    /\ Len(df_mom) = 1
    /\ \E o \in ClaimedRows : ClaimedBefore(df_src[1], o)

\* the widget texts that stand for a non-positive row limit
NonPositiveLimitTexts == {"0", "-5"}

\* C12: a non-positive row_limit is rejected before any query or computation
\* proceeds: once the parameters have been read no query is built or run for it,
\* and the limit in use is not another value put in its place.
C12_NonPositiveLimitRejected ==
    (result_limit_str \in NonPositiveLimitTexts /\ pc # "widgets") =>
      /\ historical_sql = NoQuery
      /\ pc \notin {"query", "shown"}
      /\ df_mom = <<>>
      /\ result_limit # 1

\* C12 (as the code has it): a non-positive row_limit is not rejected; the notebook
\* replaces it by 1 when it reads its parameters, the query is built with LIMIT 1,
\* and when it is answered at most one row, the first in sort order, is displayed.
C12_NonPositiveLimitClamped ==
    (result_limit_str \in NonPositiveLimitTexts /\ pc # "widgets") =>
      /\ result_limit = 1
      /\ historical_sql # NoQuery => historical_sql.limit = 1
      /\ pc \in {"params", "query", "shown", "failed"}
      /\ Shown => Len(df_mom) = (IF ClaimedRows = {} THEN 0 ELSE 1)

\* the limit text -5 was entered, and the query ran and displays one row of three
C12_Witness ==
    /\ result_limit_str = "-5"
    /\ Shown
    /\ Cardinality(ClaimedRows) = 3
    /\ Len(df_mom) = 1

\* C14: running the growth computation twice in a row on the same set of facts
\* (a set has no order, so every order of presentation is covered) and the same
\* parameters yields the identical output sequence: the same rows in the same
\* order, including which rows survive the row limit.
C14_SameOutputOnRerun ==
    (Shown /\ df_prev # NULL) => df_mom = df_prev[1]

\* t is the fetched row just before r in the series of r's account
PriorRow(t, r) ==
    /\ t \in EarlierRows(r)
    /\ \A x \in EarlierRows(r) : x.usage_date <= t.usage_date

\* the positions of the output that show the fetched row r
ShownAt(r) ==
    {k \in DOMAIN df_src : /\ df_src[k].account_id = r.account_id
                            /\ df_src[k].usage_date = r.usage_date}

\* C15: the amount > 0 filter acts after the prior-row lookup: a fetched row with
\* amount <= 0 is not output, yet it is the prior row of the next row of its
\* account, which is output (when the limit leaves room) with prior_amount equal to
\* that non-positive amount and growth_pct absent.
C15_FilterAfterLag ==
    Shown =>
      \A t \in FetchedSeries :
        t.dbu_dollars <= 0 =>
          /\ ShownAt(t) = {}
          /\ \A r \in FetchedSeries :
               (PriorRow(t, r) /\ r.dbu_dollars > 0) =>
                 /\ \A k \in ShownAt(r) :
                      /\ df_mom[k].prev_month_dbu_dollars = <<100 * t.dbu_dollars>>
                      /\ df_mom[k].mom_growth_pct = NULL
                 /\ Len(df_src) < result_limit => ShownAt(r) # {}

\* months 150, -100, 100 of one account with a minimum growth of 50: the month-3
\* row is shown with prior -100.00 and no growth, not compared with the 150 of month 1
C15_Witness ==
    /\ Shown
    /\ organic_mom_min = "50"
    /\ table = {[account_id |-> 1, account_name |-> "Acme", usage_date |-> 1, dbu_dollars |-> 150],
                [account_id |-> 1, account_name |-> "Acme", usage_date |-> 2, dbu_dollars |-> -100],
                [account_id |-> 1, account_name |-> "Acme", usage_date |-> 3, dbu_dollars |-> 100]}
    /\ Len(df_mom) = 2
    /\ df_mom[1].usage_date = 3
    /\ df_mom[1].prev_month_dbu_dollars = <<-10000>>
    /\ df_mom[1].mom_growth_pct = NULL

====
